---- MODULE Spec2Model ----
(***************************************************************************)
(* spa-server (main.go): an HTTP edge process that serves a single-page    *)
(* application from DIST_DIR, forwards the requests whose path matches one *)
(* of PROXY_PATHS to PROXY_URL, and gates every request by the client-IP   *)
(* allow-list ALLOW_REMOTE_IPS.                                            *)
(*                                                                         *)
(* Strings are TLA+ strings; the operators of Go's strings package that    *)
(* main.go calls are defined below by what they compute.                   *)
(***************************************************************************)
EXTENDS Naturals, Sequences, FiniteSets, TLC

VARIABLES
    env,        \* the process environment: DIST_DIR, ALLOW_REMOTE_IPS, PROXY_URL, PROXY_PATHS
    fs,         \* the regular files on disk (full paths)
    upstream,   \* what the backend behind PROXY_URL does: "up", "down" or "silent"
    pc,         \* main's position: "boot", "serving" or "exited"
    distDir,    \* main's local distDir
    allowedIPs, \* main's local allowedIPs
    paths,      \* main's local paths
    proxy,      \* main's local proxy: Nil or the parsed target
    hpc,        \* the request handler's position: "idle", "proxying" or "done"
    req,        \* the request being handled
    clientIP,   \* the handler's local clientIP
    resp,       \* the response written for req
    effects,    \* the calls the handler made on its collaborators, in order
    attempts    \* the round trips to the upstream made for req

vars == <<env, fs, upstream, pc, distDir, allowedIPs, paths, proxy,
          hpc, req, clientIP, resp, effects, attempts>>

config == <<env, fs, upstream>>
locals == <<distDir, allowedIPs, paths, proxy>>
handling == <<hpc, req, clientIP, resp, effects, attempts>>

----------------------------------------------------------------------------
(* Bounds of the model: the longest environment and header strings drawn.  *)

MaxAllowLen == 4
MaxXffLen == 2
MaxPatLen == 4
MaxPathLen == 3

(* All strings over the alphabet A of length at most n. *)
RECURSIVE Strs(_, _)
Strs(A, n) ==
    IF n = 0 THEN {""}
    ELSE LET S == Strs(A, n - 1) IN S \cup {s \o c : s \in S, c \in A}

----------------------------------------------------------------------------
(* Go's strings package, as main.go uses it. *)

Char(s, i) == SubSeq(s, i, i)

HasPrefix(s, prefix) ==
    Len(s) >= Len(prefix) /\ SubSeq(s, 1, Len(prefix)) = prefix

HasSuffix(s, suffix) ==
    Len(s) >= Len(suffix) /\ SubSeq(s, Len(s) - Len(suffix) + 1, Len(s)) = suffix

(* strings.Index: the 1-based place of the first sep in s, 0 when there is none. *)
Index(s, sep) ==
    LET at == {i \in 1..(Len(s) + 1 - Len(sep)) : SubSeq(s, i, i + Len(sep) - 1) = sep}
    IN IF at = {} THEN 0 ELSE CHOOSE i \in at : \A j \in at : i <= j

Contains(s, sep) == Index(s, sep) # 0

RECURSIVE Split(_, _)
Split(s, sep) ==
    LET i == Index(s, sep)
    IN IF i = 0 THEN <<s>>
       ELSE <<SubSeq(s, 1, i - 1)>> \o Split(SubSeq(s, i + Len(sep), Len(s)), sep)

(* strings.SplitN(s, sep, 2): at most two parts, cut at the first sep. *)
SplitN2(s, sep) ==
    LET i == Index(s, sep)
    IN IF i = 0 THEN <<s>>
       ELSE <<SubSeq(s, 1, i - 1), SubSeq(s, i + Len(sep), Len(s))>>

IsSpace(c) == c \in {" ", "\t", "\n", "\r"}

RECURSIVE TrimLeft(_)
TrimLeft(s) ==
    IF Len(s) > 0 /\ IsSpace(Char(s, 1)) THEN TrimLeft(SubSeq(s, 2, Len(s))) ELSE s

RECURSIVE TrimRight(_)
TrimRight(s) ==
    IF Len(s) > 0 /\ IsSpace(Char(s, Len(s))) THEN TrimRight(SubSeq(s, 1, Len(s) - 1)) ELSE s

TrimSpace(s) == TrimRight(TrimLeft(s))

----------------------------------------------------------------------------
(* The collaborators of main.go: net/url, path/filepath and os. *)

(* url.Parse fails with "missing protocol scheme" on a URL that begins with
   a colon; the URLs drawn below hold no other malformation. *)
UrlParseFails(rawURL) == HasPrefix(rawURL, ":")

(* filepath.Join(distDir, r.URL.Path) for the cleaned paths the ServeMux
   hands to the handler: the joined path, without a trailing slash. *)
Join(dir, path) ==
    IF HasSuffix(path, "/") THEN dir \o SubSeq(path, 1, Len(path) - 1) ELSE dir \o path

(* os.Stat on the file tree fs: a regular file, a directory, ENOENT
   ("notexist"), or ENOTDIR ("notdir") when the path runs through a regular
   file.  os.IsNotExist is true of "notexist" alone. *)
Stat(files, name) ==
    IF name \in files THEN "file"
    ELSE IF \E f \in files : HasPrefix(f, name \o "/") THEN "dir"
    ELSE IF \E f \in files : HasPrefix(name, f \o "/") THEN "notdir"
    ELSE "notexist"

IsNotExist(st) == st = "notexist"

----------------------------------------------------------------------------
(* Values of the handler's state when no request is in hand. *)

Nil == [set |-> FALSE, target |-> ""]
NoReq == [xff |-> "", remoteAddr |-> "", path |-> ""]
NoResp == [status |-> 0, by |-> "none", cache |-> FALSE]

(* The status of a response main.go does not write itself: it is left to
   the delivery named in resp.by (http.ServeFile, the file server). *)
StatusDelegated == 0

----------------------------------------------------------------------------
(* main: configuration loading. *)

(* PROXY_PATHS loading with another default. *)
LoadPathsDefaultApi(proxyPaths) ==
    IF proxyPaths # ""
    THEN LET parts == Split(proxyPaths, ",")
         IN [i \in 1..Len(parts) |-> TrimSpace(parts[i])]
    ELSE <<"/api">>

(* PROXY_PATHS: split on commas and trimmed, or the default /query. *)
LoadPaths(proxyPaths) ==
    IF proxyPaths # ""
    THEN LET parts == Split(proxyPaths, ",")
         IN [i \in 1..Len(parts) |-> TrimSpace(parts[i])]
    ELSE <<"/query">>

(* The reverse proxy: built only for a non-empty PROXY_URL that parses. *)
NewProxy(proxyURL) ==
    IF proxyURL # "" /\ ~UrlParseFails(proxyURL)
    THEN [set |-> TRUE, target |-> proxyURL]
    ELSE Nil

(* main without the directory check. *)
ConfigFatalUnsetOnly(e, files) == e.DIST_DIR = ""

(* The two os.Exit(1) of main: DIST_DIR unset, or the directory absent. *)
ConfigFatal(e, files) ==
    \/ e.DIST_DIR = ""
    \/ IsNotExist(Stat(files, e.DIST_DIR))

Main ==
    /\ pc = "boot"
    /\ IF ConfigFatal(env, fs)
       THEN /\ pc' = "exited"
            /\ UNCHANGED locals
       ELSE /\ pc' = "serving"
            /\ distDir' = env.DIST_DIR
            /\ allowedIPs' = Split(env.ALLOW_REMOTE_IPS, ",")
            /\ paths' = LoadPaths(env.PROXY_PATHS)
            /\ proxy' = NewProxy(env.PROXY_URL)
    /\ UNCHANGED <<config, handling>>

----------------------------------------------------------------------------
(* getClientIP *)

getClientIP(r) ==
    IF r.xff # ""
    THEN TrimSpace(Split(r.xff, ",")[1])
    ELSE Split(r.remoteAddr, ":")[1]

----------------------------------------------------------------------------
(* The request handler. *)

(* The allow-list is enforced only when its first entry is not empty. *)
Enforced(list) == Len(list) > 0 /\ list[1] # ""

(* The entry compared as written, its whitespace kept. *)
EntryAllowsUntrimmed(allowedIP, ip) ==
    allowedIP = ip \/ HasPrefix(ip, allowedIP)

(* A blank entry made to match no client through the prefix test. *)
EntryAllowsNonBlank(allowedIP, ip) ==
    allowedIP = ip \/ (TrimSpace(allowedIP) # "" /\ HasPrefix(ip, TrimSpace(allowedIP)))

EntryAllows(allowedIP, ip) ==
    allowedIP = ip \/ HasPrefix(ip, TrimSpace(allowedIP))

Allowed(list, ip) == \E i \in 1..Len(list) : EntryAllows(list[i], ip)

Denied(list, ip) == Enforced(list) /\ ~Allowed(list, ip)

(* A wildcard pattern matched on its prefix alone. *)
PatternMatchesPrefixOnly(pattern, path) ==
    IF Contains(pattern, "*")
    THEN HasPrefix(path, SplitN2(pattern, "*")[1])
    ELSE HasPrefix(path, pattern)

PatternMatches(pattern, path) ==
    IF Contains(pattern, "*")
    THEN LET parts == SplitN2(pattern, "*")
         IN Len(parts) = 2 /\ HasPrefix(path, parts[1]) /\ HasSuffix(path, parts[2])
    ELSE HasPrefix(path, pattern)

shouldProxy(patterns, path) ==
    \E i \in 1..Len(patterns) : PatternMatches(patterns[i], path)

NoCachePath(path) == path = "/" \/ path = "/index.html"

Forbid ==
    [hpc |-> "done",
     resp |-> [status |-> 403, by |-> "http.Error", cache |-> FALSE],
     effects |-> <<"log.Println", "http.Error">>]

Delegate ==
    [hpc |-> "proxying",
     resp |-> NoResp,
     effects |-> <<"proxy.ServeHTTP">>]

ServeStatic(dir, files, path) ==
    IF IsNotExist(Stat(files, Join(dir, path)))
    THEN [hpc |-> "done",
          resp |-> [status |-> StatusDelegated, by |-> "http.ServeFile", cache |-> TRUE],
          effects |-> <<"os.Stat", "http.ServeFile">>]
    ELSE [hpc |-> "done",
          resp |-> [status |-> StatusDelegated, by |-> "fileServer", cache |-> NoCachePath(path)],
          effects |-> <<"os.Stat", "fileServer.ServeHTTP">>]

(* The handler with the proxy dispatch moved before the allow-list check. *)
RouteProxyFirst(patterns, r, ip) ==
    IF shouldProxy(patterns, r.path) /\ proxy # Nil THEN Delegate
    ELSE IF Denied(allowedIPs, ip) THEN Forbid
    ELSE ServeStatic(distDir, fs, r.path)

(* The handler from its first line to the call it ends in. *)
Route(patterns, r, ip) ==
    IF Denied(allowedIPs, ip) THEN Forbid
    ELSE IF shouldProxy(patterns, r.path) /\ proxy # Nil THEN Delegate
    ELSE ServeStatic(distDir, fs, r.path)

Handler(r) ==
    /\ pc = "serving"
    /\ hpc = "idle"
    /\ LET ip == getClientIP(r)
           out == Route(paths, r, ip)
       IN /\ req' = r
          /\ clientIP' = ip
          /\ hpc' = out.hpc
          /\ resp' = out.resp
          /\ effects' = out.effects
    /\ UNCHANGED <<config, pc, locals, attempts>>

----------------------------------------------------------------------------
(* proxy.ServeHTTP: one round trip to the target; its failure goes to the
   ErrorHandler main installs. *)

UpstreamStatuses == {200, 404}

(* An error handler that answers 500. *)
ErrorHandlerInternal == [status |-> 500, by |-> "http.Error", cache |-> FALSE]

ErrorHandler == [status |-> 502, by |-> "http.Error", cache |-> FALSE]

ProxyResponse ==
    /\ hpc = "proxying"
    /\ upstream = "up"
    /\ attempts' = attempts + 1
    /\ \E st \in UpstreamStatuses :
          resp' = [status |-> st, by |-> "upstream", cache |-> FALSE]
    /\ effects' = Append(effects, "RoundTrip")
    /\ hpc' = "done"
    /\ UNCHANGED <<config, pc, locals, req, clientIP>>

ProxyError ==
    /\ hpc = "proxying"
    /\ upstream = "down"
    /\ attempts' = attempts + 1
    /\ resp' = ErrorHandler
    /\ effects' = effects \o <<"RoundTrip", "log.Printf", "http.Error">>
    /\ hpc' = "done"
    /\ UNCHANGED <<config, pc, locals, req, clientIP>>

(* The client disconnects while the forward is in flight: the request's
   context is cancelled, the round trip returns its error and the
   ErrorHandler runs.  Nothing else ends a forward the upstream leaves
   unanswered: main sets no timeout on the proxy's transport, on the
   request's context or on the server. *)
ClientGone ==
    /\ hpc = "proxying"
    /\ attempts' = attempts + 1
    /\ resp' = ErrorHandler
    /\ effects' = effects \o <<"RoundTrip", "log.Printf", "http.Error">>
    /\ hpc' = "done"
    /\ UNCHANGED <<config, pc, locals, req, clientIP>>

(* The handler has returned; the server takes the next request. *)
Finish ==
    /\ hpc = "done"
    /\ hpc' = "idle"
    /\ req' = NoReq
    /\ clientIP' = ""
    /\ resp' = NoResp
    /\ effects' = <<>>
    /\ attempts' = 0
    /\ UNCHANGED <<config, pc, locals>>

----------------------------------------------------------------------------
(* The environments and requests drawn. *)

InitWith(envs, trees, ups) ==
    /\ env \in envs
    /\ fs \in trees
    /\ upstream \in ups
    /\ pc = "boot"
    /\ distDir = ""
    /\ allowedIPs = <<>>
    /\ paths = <<>>
    /\ proxy = Nil
    /\ hpc = "idle"
    /\ req = NoReq
    /\ clientIP = ""
    /\ resp = NoResp
    /\ effects = <<>>
    /\ attempts = 0

Request(xffs, addrs, urlPaths) ==
    [xff : xffs, remoteAddr : addrs, path : urlPaths]

RouterEnvs ==
    [DIST_DIR : {"", "dist"},
     ALLOW_REMOTE_IPS : {"", "10.", "10.,"},
     PROXY_URL : {"", "http://b", ":b"},
     PROXY_PATHS : {"", "/query", "/api,/v/*.mp4"}]

FileSystems == {{}, {"dist/index.html"}, {"dist/index.html", "dist/app.js"}}

Upstreams == {"up", "down", "silent"}

RouterRequests ==
    Request({"", "10.1, 9.9", " "},
            {"10.2:51", "[::1]:51"},
            {"/", "/index.html", "/app.js", "/dash", "/query", "/query/x",
             "/api", "/v/a.mp4", "/index.html/x"})

(* The allow-list check alone: every ALLOW_REMOTE_IPS and X-Forwarded-For
   over a small alphabet, no proxy. *)
GuardEnvs ==
    [DIST_DIR : {"dist"},
     ALLOW_REMOTE_IPS : Strs({"1", "2", ",", " "}, MaxAllowLen),
     PROXY_URL : {""},
     PROXY_PATHS : {""}]

GuardRequests ==
    Request(Strs({"1", "2", ",", " "}, MaxXffLen), {"1:51", "21:51"}, {"/"})

InitGuard == InitWith(GuardEnvs, {{"dist/index.html"}}, {"up"})

NextGuard ==
    \/ Main
    \/ \E r \in GuardRequests : Handler(r)
    \/ Finish

SpecGuard == InitGuard /\ [][NextGuard]_vars

(* The proxy path check alone: every PROXY_PATHS and every cleaned request
   path over a small alphabet, an upstream configured and answering. *)
MatchEnvs ==
    [DIST_DIR : {"dist"},
     ALLOW_REMOTE_IPS : {""},
     PROXY_URL : {"http://b"},
     PROXY_PATHS : Strs({"/", "a", "b", "*", ","}, MaxPatLen)]

(* The paths the ServeMux hands on: rooted, with no empty segment. *)
CleanPaths ==
    {p \in {"/" \o s : s \in Strs({"/", "a", "b"}, MaxPathLen)} : ~Contains(p, "//")}

MatchRequests == Request({""}, {"1:51"}, CleanPaths)

InitMatch == InitWith(MatchEnvs, {{"dist/index.html"}}, {"up"})

NextMatch ==
    \/ Main
    \/ \E r \in MatchRequests : Handler(r)
    \/ ProxyResponse
    \/ Finish

SpecMatch == InitMatch /\ [][NextMatch]_vars

Init == InitWith(RouterEnvs, FileSystems, Upstreams)

Next ==
    \/ Main
    \/ \E r \in RouterRequests : Handler(r)
    \/ ProxyResponse
    \/ ProxyError
    \/ ClientGone
    \/ Finish

Spec == Init /\ [][Next]_vars

(* The scheduling the process can count on: main runs, an upstream that is
   up answers, a round trip to an upstream that is down fails, and a handler
   that has written its response returns.  Nothing makes a request arrive or
   a client disconnect. *)
SpecFair ==
    /\ Spec
    /\ WF_vars(Main)
    /\ WF_vars(ProxyResponse)
    /\ WF_vars(ProxyError)
    /\ WF_vars(Finish)

----------------------------------------------------------------------------
(* The vocabulary of the specification, stated without the code's helpers. *)

StartsWith(s, p) == \E k \in 0..Len(s) : SubSeq(s, 1, k) = p

EndsWith(s, x) == \E k \in 0..Len(s) : SubSeq(s, k + 1, Len(s)) = x

Blank(s) == \A i \in 1..Len(s) : IsSpace(Char(s, i))

(* s without its leading and trailing whitespace. *)
Trimmed(s) ==
    CHOOSE t \in {SubSeq(s, i, j) : i \in 1..(Len(s) + 1), j \in 0..Len(s)} :
        /\ \E a \in 0..Len(s) :
              /\ a + Len(t) <= Len(s)
              /\ SubSeq(s, a + 1, a + Len(t)) = t
              /\ Blank(SubSeq(s, 1, a))
              /\ Blank(SubSeq(s, a + Len(t) + 1, Len(s)))
        /\ t # "" => ~IsSpace(Char(t, 1)) /\ ~IsSpace(Char(t, Len(t)))

(* AccessGuard, section 4.2. *)
IsAllowed(list, ip) ==
    IF list = <<>> \/ list = <<"">> THEN TRUE
    ELSE \E i \in 1..Len(list) : list[i] = ip \/ StartsWith(ip, Trimmed(list[i]))

Stars(pattern) == Cardinality({k \in 1..Len(pattern) : Char(pattern, k) = "*"})

(* PathMatcher, section 4.3, for patterns with at most one wildcard. *)
Matches(pattern, path) ==
    IF Stars(pattern) = 0 THEN StartsWith(path, pattern)
    ELSE \E k \in 1..Len(pattern) :
            /\ Char(pattern, k) = "*"
            /\ StartsWith(path, SubSeq(pattern, 1, k - 1))
            /\ EndsWith(path, SubSeq(pattern, k + 1, Len(pattern)))

MatchesAny(patterns, path) == \E i \in 1..Len(patterns) : Matches(patterns[i], path)

(* The handler has run for req and nothing has happened since. *)
Routed == hpc # "idle" /\ attempts = 0

Forwarded == effects # <<>> /\ effects[1] = "proxy.ServeHTTP"

ReachedStatic == \E i \in 1..Len(effects) : effects[i] = "os.Stat"

Count(seq, x) == Cardinality({i \in 1..Len(seq) : seq[i] = x})

----------------------------------------------------------------------------
(* C1: a request that passes the access check, on a path that matches a
   route pattern, with no upstream configured, is answered 404 and never
   reaches static resolution. *)
C1_UnconfiguredProxyIs404 ==
    (/\ Routed
     /\ IsAllowed(allowedIPs, clientIP)
     /\ MatchesAny(paths, req.path)
     /\ proxy = Nil)
    => (resp.status = 404 /\ ~ReachedStatic)

(* C2: a request whose client IP the allow-list denies is answered 403 and
   ends there: it is never forwarded upstream and never resolved against the
   file tree, whatever its path, the patterns and the upstream are. *)
C2_DeniedIsTerminal403 ==
    (hpc # "idle" /\ ~IsAllowed(allowedIPs, clientIP))
    => (/\ hpc = "done"
        /\ resp.status = 403
        /\ ~Forwarded
        /\ ~ReachedStatic
        /\ attempts = 0)

C2_Witness ==
    /\ hpc = "done"
    /\ resp.status = 403
    /\ MatchesAny(paths, req.path)
    /\ proxy # Nil

(* C3: the client is allowed when the allow-list is empty or holds only the
   empty string; otherwise it is allowed iff its IP equals some entry or
   begins with some entry trimmed of whitespace; every other client gets 403. *)
C3_AccessGuardDecision ==
    Routed =>
        IF IsAllowed(allowedIPs, clientIP)
        THEN resp.status # 403
        ELSE resp.status = 403 /\ hpc = "done"

(* A client let in by an entry that is a proper prefix of its IP only once
   the entry is trimmed, under a list with no blank entry. *)
C3_Witness ==
    /\ Routed
    /\ \A i \in 1..Len(allowedIPs) : ~Blank(allowedIPs[i])
    /\ \E i \in 1..Len(allowedIPs) :
          /\ allowedIPs[i] # Trimmed(allowedIPs[i])
          /\ clientIP # Trimmed(allowedIPs[i])
          /\ StartsWith(clientIP, Trimmed(allowedIPs[i]))
    /\ resp.status # 403

(* C4: a path is eligible for proxying iff at least one pattern matches it:
   a pattern without * iff the path starts with it, a pattern with one * iff
   the path starts with the text before * and ends with the text after it. *)
C4_PathMatcherDecision ==
    (/\ Routed
     /\ proxy # Nil
     /\ IsAllowed(allowedIPs, clientIP)
     /\ \A i \in 1..Len(paths) : Stars(paths[i]) <= 1)
    => (Forwarded <=> MatchesAny(paths, req.path))

(* A path that starts with the text before the wildcard of the only
   wildcard pattern and does not end with the text after it: not forwarded. *)
C4_Witness ==
    /\ Routed
    /\ proxy # Nil
    /\ \A i \in 1..Len(paths) : Stars(paths[i]) = 1 /\ ~HasSuffix(paths[i], "*")
    /\ \E i \in 1..Len(paths) : StartsWith(req.path, SubSeq(paths[i], 1, Index(paths[i], "*") - 1))
    /\ ~MatchesAny(paths, req.path)
    /\ ~Forwarded

(* Something, a file or a directory, exists at name. *)
Exists(name) == name \in fs \/ \E f \in fs : StartsWith(f, name \o "/")

Fallback == resp.by = "http.ServeFile" /\ resp.cache

FileServed == resp.by = "fileServer" /\ (resp.cache <=> req.path \in {"/", "/index.html"})

(* C5: in static resolution, when no file exists at rootDir joined with
   the path the entry document is served with Cache-Control; when one exists
   it is served, with the header iff the path is / or /index.html. *)
C5_StaticResolution ==
    (Routed /\ ReachedStatic)
    => IF ~Exists(Join(distDir, req.path)) THEN Fallback ELSE FileServed

(* C6: a forward that fails at the network level yields exactly one
   response, a 502, and the forward is attempted once. *)
C6_UpstreamFailureIs502Once ==
    (Forwarded /\ upstream = "down")
    => /\ hpc = "proxying" => attempts = 0 /\ resp = NoResp
       /\ hpc = "done" =>
             /\ resp.status = 502
             /\ attempts = 1
             /\ Count(effects, "RoundTrip") = 1
             /\ Count(effects, "http.Error") = 1

C6_Witness ==
    /\ Forwarded
    /\ upstream = "down"
    /\ hpc = "done"
    /\ resp.status = 502

(* C7: the empty PROXY_PATHS routes every request as the single pattern
   /query does, whatever the upstream setting: /query and /query/... are
   proxied, /api is not. *)
OtherPaths(proxyPaths) == IF proxyPaths = "" THEN "/query" ELSE ""

C7_EmptyPatternsAreQuery ==
    (Routed /\ env.PROXY_PATHS \in {"", "/query"})
    => /\ [hpc |-> hpc, resp |-> resp, effects |-> effects]
             = Route(LoadPaths(OtherPaths(env.PROXY_PATHS)), req, clientIP)
       /\ (proxy # Nil /\ IsAllowed(allowedIPs, clientIP))
             => (Forwarded <=> StartsWith(req.path, "/query"))

C7_Witness ==
    /\ Routed
    /\ env.PROXY_PATHS = ""
    /\ req.path = "/query/x"
    /\ Forwarded

(* The configuration errors of section 7. *)
RootExists == \E f \in fs : StartsWith(f, env.DIST_DIR \o "/")

Malformed(u) == Len(u) > 0 /\ Char(u, 1) = ":"

FirstEntry(v) ==
    LET commas == {k \in 1..Len(v) : Char(v, k) = ","}
    IN IF commas = {} THEN v
       ELSE SubSeq(v, 1, (CHOOSE k \in commas : \A j \in commas : k <= j) - 1)

(* host:port without its port suffix. *)
HostPort(addr) ==
    LET colons == {k \in 1..Len(addr) : Char(addr, k) = ":"}
    IN IF colons = {} THEN addr
       ELSE SubSeq(addr, 1, (CHOOSE k \in colons : \A j \in colons : k >= j) - 1)

Unbracketed(h) ==
    IF Len(h) >= 2 /\ Char(h, 1) = "[" /\ Char(h, Len(h)) = "]"
    THEN SubSeq(h, 2, Len(h) - 1)
    ELSE h

(* C9: with a non-empty forwarded-for header the client IP is its first
   comma-separated entry, trimmed; otherwise it is the peer address without
   its port suffix, bracketed IPv6 included. *)
C9_ClientIdentifier ==
    Routed =>
        IF req.xff # ""
        THEN clientIP = Trimmed(FirstEntry(req.xff))
        ELSE clientIP \in {HostPort(req.remoteAddr), Unbracketed(HostPort(req.remoteAddr))}

(* C10: an empty client IP under an enforced allow-list matches no entry
   and is answered 403, blank entries after the first included. *)
C10_UnknownClientDenied ==
    (Routed /\ clientIP = "" /\ allowedIPs # <<>> /\ allowedIPs[1] # "")
    => resp.status = 403

(* The list with its entries in the order p gives. *)
Reordered(list, p) == [i \in 1..Len(list) |-> list[p[i]]]

(* C11: the access decision does not depend on the order of the allow-list
   entries: under every permutation of the list the client is denied exactly
   when the handler denied it, blank entries in any position included. *)
C11_OrderIndependent ==
    Routed =>
        \A p \in Permutations(1..Len(allowedIPs)) :
            Denied(Reordered(allowedIPs, p), clientIP) <=> resp.status = 403

(* An enforced list of several entries, one of them blank and not the first,
   and a client that no other entry lets in. *)
C11_Witness ==
    /\ Routed
    /\ clientIP # ""
    /\ Len(allowedIPs) >= 2
    /\ ~Blank(allowedIPs[1])
    /\ \E i \in 2..Len(allowedIPs) : Blank(allowedIPs[i])
    /\ \A i \in 1..Len(allowedIPs) :
          ~Blank(allowedIPs[i]) => ~StartsWith(clientIP, Trimmed(allowedIPs[i]))
    /\ resp.status # 403

(* C12: a forward never blocks indefinitely: every request handed to the
   proxy eventually completes with a response, the upstream's or a 502, even
   when the upstream accepts the connection and never answers. *)
C12_ForwardCompletes == (hpc = "proxying") ~> (hpc = "done")

====
